---------------------------- MODULE Spec2Model ----------------------------
(***************************************************************************)
(* Model of the signal pipeline of process-signals-dashboard:              *)
(*   src/src/processing.py  moving_average, fft_magnitude                  *)
(*   src/src/io_excel.py    discover_signals, extract_signal               *)
(*   src/src/plotting.py    make_plotly_3d_signals (alignment, downsample) *)
(*                                                                         *)
(* Every operation is a pure function.  A behaviour is one call: Init      *)
(* draws the arguments, the action applies the function and stores what it *)
(* returned or raised.                                                     *)
(*                                                                         *)
(* Floating point numbers are modelled as exact rationals [num, den] in    *)
(* lowest terms, so rounding is abstracted away; everything else (padding, *)
(* convolution, cumulative sums, truncation to int) is computed as the     *)
(* code computes it.                                                       *)
(***************************************************************************)
EXTENDS Integers, Sequences, FiniteSets, TLC

VARIABLES pc, fn, args, ret

vars == <<pc, fn, args, ret>>

NoResult == [kind |-> "none"]
Ok(v) == [kind |-> "ok", value |-> v]
Raise(exc, msg) == [kind |-> "raise", exc |-> exc, msg |-> msg]

-----------------------------------------------------------------------------
(* Bounds of the model                                                     *)

MaxLen == 4        \* longest input of moving_average
MaxVal == 1        \* samples of moving_average are drawn from -1..MaxVal
MaxN3D == 7        \* longest sequence of a series given to the 3D view
MaxSamples == 4    \* most samples in an input of fft_magnitude
MaxRows == 3       \* most rows in a table given to extract_signal
MaxCols == 4       \* most columns in a table given to discover_signals

-----------------------------------------------------------------------------
(* Exact arithmetic standing in for float64                                *)

Abs(i) == IF i < 0 THEN -i ELSE i

RECURSIVE Gcd(_, _)
Gcd(a, b) == IF b = 0 THEN a ELSE Gcd(b, a % b)

\* a rational in lowest terms with a positive denominator
Rat(n, d) ==
    LET s == IF d < 0 THEN -1 ELSE 1
        g == Gcd(Abs(n), Abs(d))
    IN  [num |-> (s * n) \div g, den |-> (s * d) \div g]

Float(i) == [num |-> i, den |-> 1]
RAdd(a, b) == Rat(a.num * b.den + b.num * a.den, a.den * b.den)
RSub(a, b) == Rat(a.num * b.den - b.num * a.den, a.den * b.den)
RMul(a, b) == Rat(a.num * b.num, a.den * b.den)
RDiv(a, b) == Rat(a.num * b.den, a.den * b.num)
RLeq(a, b) == a.num * b.den <= b.num * a.den
RLess(a, b) == a.num * b.den < b.num * a.den

\* float64 values: a finite number, NaN, +inf or -inf
Num(q) == [cls |-> "fin", q |-> q]
NaN == [cls |-> "nan", q |-> Float(0)]
Inf(sign) == [cls |-> "inf", q |-> Float(sign)]

\* np.isnan, np.isfinite
IsNaN(f) == f.cls = "nan"
IsFinite(f) == f.cls = "fin"

\* a - b in IEEE arithmetic
FSub(a, b) ==
    IF IsNaN(a) \/ IsNaN(b) THEN NaN
    ELSE IF IsFinite(a) /\ IsFinite(b) THEN Num(RSub(a.q, b.q))
    ELSE IF IsFinite(b) THEN a
    ELSE IF IsFinite(a) THEN Inf(-b.q.num)
    ELSE IF a.q = b.q THEN NaN
    ELSE a

\* sum of a sequence of rationals, left to right
RECURSIVE RSum(_)
RSum(s) == IF s = <<>> THEN Float(0)
           ELSE RAdd(RSum(SubSeq(s, 1, Len(s) - 1)), s[Len(s)])

-----------------------------------------------------------------------------
(* numpy helpers used by processing.py                                     *)

\* np.asarray(x, dtype=float)
AsFloatArray(x) == [i \in 1..Len(x) |-> Float(x[i])]

\* a slip: np.pad(..., mode="constant"), which pads with zeros
PadZero(x, before, after) ==
    [i \in 1..(before + Len(x) + after) |->
        IF i <= before \/ i > before + Len(x) THEN Float(0) ELSE x[i - before]]

\* np.pad(x, (before, after), mode="edge")
PadEdge(x, before, after) ==
    [i \in 1..(before + Len(x) + after) |->
        IF i <= before THEN x[1]
        ELSE IF i > before + Len(x) THEN x[Len(x)]
        ELSE x[i - before]]

\* np.ones(w, dtype=float) / w
UniformKernel(w) == [k \in 1..w |-> RDiv(Float(1), Float(w))]

\* a slip: np.convolve(a, v, mode="full"), len(a) + len(v) - 1 outputs
ConvolveFull(a, v) ==
    [k \in 1..(Len(a) + Len(v) - 1) |->
        RSum([j \in 1..Len(v) |->
            IF k - j + 1 \in 1..Len(a) THEN RMul(a[k - j + 1], v[j]) ELSE Float(0)])]

\* np.convolve(a, v, mode="valid"): the operands are swapped when v is the
\* longer one; output k is sum_j a[k + j] * v[M - 1 - j] (0-based)
ConvolveValid(a, v) ==
    LET long  == IF Len(v) > Len(a) THEN v ELSE a
        short == IF Len(v) > Len(a) THEN a ELSE v
        m     == Len(short)
    IN  [k \in 1..(Len(long) - m + 1) |->
            RSum([j \in 1..m |-> RMul(long[k + j - 1], short[m - j + 1])])]

\* a slip: the running sum excludes the current sample
CumSumExclusive(x) == [i \in 1..Len(x) |-> RSum(SubSeq(x, 1, i - 1))]

\* np.cumsum(x)
CumSum(x) == [i \in 1..Len(x) |-> RSum(SubSeq(x, 1, i))]

\* np.mean(x)
Mean(x) == RDiv(RSum(x), Float(Len(x)))

-----------------------------------------------------------------------------
(* processing.moving_average                                               *)

\* a slip: the two pad widths of the centered mode exchanged
moving_average_swapped(x0, window, mode) ==
    LET x == AsFloatArray(x0)
        n == Len(x)
        w == window
    IN  IF window <= 1 \/ n = 0 THEN Ok(x)
        ELSE IF window < 1 THEN Raise("ValueError", "window must be >= 1")
        ELSE IF window > n THEN
            IF mode = "trailing"
            THEN Ok([i \in 1..n |-> RDiv(CumSum(x)[i], Float(i))])
            ELSE Ok([i \in 1..n |-> Mean(x)])
        ELSE IF mode = "trailing" THEN
            Ok(ConvolveValid(PadEdge(x, w - 1, 0), UniformKernel(w)))
        ELSE IF mode = "centered" THEN
            LET right == (w - 1) \div 2
                left  == w - 1 - right
            IN  Ok(ConvolveValid(PadEdge(x, left, right), UniformKernel(w)))
        ELSE Raise("ValueError", "mode must be 'trailing' or 'centered'")

moving_average(x0, window, mode) ==
    LET x == AsFloatArray(x0)
        n == Len(x)
        w == window
    IN  IF window <= 1 \/ n = 0 THEN Ok(x)
        ELSE IF window < 1 THEN Raise("ValueError", "window must be >= 1")
        ELSE IF window > n THEN
            IF mode = "trailing"
            THEN Ok([i \in 1..n |-> RDiv(CumSum(x)[i], Float(i))])
            ELSE Ok([i \in 1..n |-> Mean(x)])
        ELSE IF mode = "trailing" THEN
            Ok(ConvolveValid(PadEdge(x, w - 1, 0), UniformKernel(w)))
        ELSE IF mode = "centered" THEN
            LET left  == (w - 1) \div 2
                right == w - 1 - left
            IN  Ok(ConvolveValid(PadEdge(x, left, right), UniformKernel(w)))
        ELSE Raise("ValueError", "mode must be 'trailing' or 'centered'")

\* sequences of length 0..n over S
SeqsUpTo(S, n) == UNION {[1..k -> S] : k \in 0..n}

Modes == {"trailing", "centered", "median"}

MAArgs == [x : SeqsUpTo(-1..MaxVal, MaxLen),
           window : -1..(MaxLen + 1),
           mode : Modes]

InitMA == /\ pc = "call"
          /\ fn = "moving_average"
          /\ args \in MAArgs
          /\ ret = NoResult

CallMovingAverage ==
    /\ pc = "call"
    /\ fn = "moving_average"
    /\ ret' = moving_average(args.x, args.window, args.mode)
    /\ pc' = "done"
    /\ UNCHANGED <<fn, args>>

NextMA == CallMovingAverage

SpecMA == InitMA /\ [][NextMA]_vars

-----------------------------------------------------------------------------
(* Python strings: a str is a sequence of one-character strings            *)

Whitespace == {" ", "\t"}

\* s.startswith(p)
StartsWith(s, p) == Len(s) >= Len(p) /\ SubSeq(s, 1, Len(p)) = p

\* s.endswith(p)
EndsWith(s, p) ==
    Len(s) >= Len(p) /\ SubSeq(s, Len(s) - Len(p) + 1, Len(s)) = p

\* s.lstrip() and s.rstrip()
RECURSIVE LStrip(_)
LStrip(s) == IF s # <<>> /\ s[1] \in Whitespace THEN LStrip(Tail(s)) ELSE s

RECURSIVE RStrip(_)
RStrip(s) == IF s # <<>> /\ s[Len(s)] \in Whitespace
             THEN RStrip(SubSeq(s, 1, Len(s) - 1)) ELSE s

\* s.strip()
Strip(s) == RStrip(LStrip(s))

-----------------------------------------------------------------------------
(* io_excel.discover_signals                                               *)

\* a column label of the DataFrame: a str, or an object of another type
\* (text is then what str(label) gives)
StrCol(text) == [type |-> "str", text |-> text]
OtherCol(text) == [type |-> "other", text |-> text]

TIME_PREFIX == <<"T", "i", "m", "e", " ", "-", " ">>

Signal(name, tcol, vcol) == [name |-> name, time_col |-> tcol, value_col |-> vcol]

\* a slip: the time column itself is not excluded from the candidates
CandidatesWithSelf(cols, tcol, name) ==
    SelectSeq(cols, LAMBDA c : EndsWith(c.text, <<" ", "-", " ">> \o name))

\* [c for c in cols if c != tcol and c.endswith(f" - {name}")]
Candidates(cols, tcol, name) ==
    SelectSeq(cols, LAMBDA c : c # tcol /\ EndsWith(c.text, <<" ", "-", " ">> \o name))

\* the body of the loop over time_cols, signals appended in that order
RECURSIVE DiscoverLoop(_, _)
DiscoverLoop(time_cols, cols) ==
    IF time_cols = <<>> THEN <<>>
    ELSE LET tcol == time_cols[1]
             name == Strip(SubSeq(tcol.text, Len(TIME_PREFIX) + 1, Len(tcol.text)))
             candidates == Candidates(cols, tcol, name)
             rest == DiscoverLoop(Tail(time_cols), cols)
         IN  IF name = <<>> THEN rest
             ELSE IF candidates = <<>> THEN rest
             ELSE <<Signal(name, tcol, candidates[1])>> \o rest

\* [c for c in cols if c.startswith(TIME_PREFIX)]
TimeCols(cols) == SelectSeq(cols, LAMBDA c : StartsWith(c.text, TIME_PREFIX))

discover_signals(columns) ==
    LET cols == SelectSeq(columns, LAMBDA c : c.type = "str")
        time_cols == TimeCols(cols)
    IN  Ok(DiscoverLoop(time_cols, cols))

DASH == <<" ", "-", " ">>
TIME == <<"T", "i", "m", "e">>

\* the column labels tables are built from
ColumnPool ==
    { StrCol(TIME \o DASH \o <<"A">>),                 \* "Time - A"
      StrCol(TIME \o DASH \o <<"A", " ">>),            \* "Time - A "
      StrCol(TIME \o DASH \o <<" ">>),                 \* "Time -  "
      StrCol(TIME \o DASH \o <<"B">>),                 \* "Time - B"
      StrCol(TIME \o DASH \o TIME \o DASH \o <<"A">>), \* "Time - Time - A"
      StrCol(<<"X">> \o DASH \o <<"A">>),              \* "X - A"
      StrCol(<<"Y">> \o DASH \o <<"A">>),              \* "Y - A"
      StrCol(<<"Y">> \o DASH \o <<"B">>),              \* "Y - B"
      StrCol(<<"A">>),                                 \* "A"
      OtherCol(<<"Z">> \o DASH \o <<"B">>) }           \* not a str

\* the labels of a DataFrame read from a sheet are pairwise distinct
Tables == {c \in SeqsUpTo(ColumnPool, MaxCols) :
              \A i, j \in 1..Len(c) : i # j => c[i] # c[j]}

InitDiscover == /\ pc = "call"
                /\ fn = "discover_signals"
                /\ args \in [columns : Tables]
                /\ ret = NoResult

CallDiscoverSignals ==
    /\ pc = "call"
    /\ fn = "discover_signals"
    /\ ret' = discover_signals(args.columns)
    /\ pc' = "done"
    /\ UNCHANGED <<fn, args>>

NextDiscover == CallDiscoverSignals

SpecDiscover == InitDiscover /\ [][NextDiscover]_vars


-----------------------------------------------------------------------------
(* io_excel.extract_signal                                                 *)

\* cells of a sheet: a number, a text, or an empty cell (None)
NumCell(v) == [type |-> "num", v |-> v, text |-> <<>>]
StrCell(text) == [type |-> "str", v |-> 0, text |-> text]
NoneCell == [type |-> "none", v |-> 0, text |-> <<>>]


DigitValue == [c \in {"0", "1", "2", "3", "4", "5", "6", "7", "8", "9"} |->
                 CASE c = "0" -> 0 [] c = "1" -> 1 [] c = "2" -> 2 [] c = "3" -> 3
                   [] c = "4" -> 4 [] c = "5" -> 5 [] c = "6" -> 6 [] c = "7" -> 7
                   [] c = "8" -> 8 [] c = "9" -> 9]

\* the value of a decimal numeral
RECURSIVE ParseDigits(_)
ParseDigits(s) ==
    IF s = <<>> THEN 0
    ELSE 10 * ParseDigits(SubSeq(s, 1, Len(s) - 1)) + DigitValue[s[Len(s)]]

\* pd.to_numeric(..., errors="coerce") on one cell: numbers are kept, text
\* is parsed, and whatever does not parse (or is empty) becomes NaN
Coerce(cell) ==
    IF cell.type = "num" THEN Num(Float(cell.v))
    ELSE IF cell.type = "str" /\ cell.text # <<>>
            /\ \A i \in 1..Len(cell.text) : cell.text[i] \in DOMAIN DigitValue
         THEN Num(Float(ParseDigits(cell.text)))
    ELSE NaN

\* a pandas Series: entries [index, value] in row order
\* df[col] of a DataFrame with the default RangeIndex
Column(cells) == [r \in 1..Len(cells) |-> [index |-> r - 1, value |-> cells[r]]]

\* pd.to_numeric(series, errors="coerce")
to_numeric(series) ==
    [r \in 1..Len(series) |-> [index |-> series[r].index, value |-> Coerce(series[r].value)]]

\* series.notna()
notna(series) ==
    [r \in 1..Len(series) |-> [index |-> series[r].index, value |-> ~IsNaN(series[r].value)]]

\* series[label]: the value of a Series at an index label
At(series, label) ==
    SelectSeq(series, LAMBDA e : e.index = label)[1].value

\* a slip: the mask looks at the time column alone
MaskTimeOnly(t, y) == notna(t)

\* t.notna() & y.notna(), aligned on the index
Mask(t, y) ==
    LET a == notna(t)
        b == notna(y)
    IN  [r \in 1..Len(a) |->
            [index |-> a[r].index,
             value |-> a[r].value /\ At(b, a[r].index)]]

\* series[mask]: the entries whose label the mask marks, labels kept
Select(series, mask) ==
    SelectSeq(series, LAMBDA e : At(mask, e.index))

\* series.reset_index(drop=True)
reset_index(series) ==
    [r \in 1..Len(series) |-> [index |-> r - 1, value |-> series[r].value]]

extract_signal(df) ==
    LET t == to_numeric(Column(df.time))
        y == to_numeric(Column(df.value))
        mask == Mask(t, y)
    IN  Ok(<<reset_index(Select(t, mask)), reset_index(Select(y, mask))>>)

CellPool == { NumCell(1), StrCell(<<"2", "0">>), StrCell(<<"2", "x">>), NoneCell }

\* the two columns of one signal, row by row
Frames == UNION {[time : [1..n -> CellPool], value : [1..n -> CellPool]] : n \in 0..MaxRows}

InitExtract == /\ pc = "call"
               /\ fn = "extract_signal"
               /\ args \in [df : Frames]
               /\ ret = NoResult

CallExtractSignal ==
    /\ pc = "call"
    /\ fn = "extract_signal"
    /\ ret' = extract_signal(args.df)
    /\ pc' = "done"
    /\ UNCHANGED <<fn, args>>

NextExtract == CallExtractSignal

SpecExtract == InitExtract /\ [][NextExtract]_vars


-----------------------------------------------------------------------------
(* processing.fft_magnitude                                                *)

\* np.diff(time)
Diff(time) == [i \in 1..(Len(time) - 1) |-> FSub(time[i + 1], time[i])]

\* dt[np.isfinite(dt)], as plain rationals
FiniteOnly(dt) ==
    LET kept == SelectSeq(dt, IsFinite)
    IN  [i \in 1..Len(kept) |-> kept[i].q]

\* np.median(dt) of a non-empty array: the middle of the sorted values, the
\* mean of the two middle ones when their number is even
Median(dt) ==
    LET sorted == SortSeq(dt, RLess)
        c == Len(sorted)
    IN  IF c % 2 = 1 THEN sorted[(c + 1) \div 2]
        ELSE RDiv(RAdd(sorted[c \div 2], sorted[c \div 2 + 1]), Float(2))

\* np.fft.rfftfreq(n, d): arange(0, n // 2 + 1) * (1.0 / (n * d))
rfftfreq(n, d) ==
    LET val == RDiv(Float(1), RMul(Float(n), d))
    IN  [k \in 1..(n \div 2 + 1) |-> RMul(Float(k - 1), val)]

\* np.fft.rfft(x): bins 0 .. n // 2 of the DFT.  Bin k is
\* sum_j x[j] * W^(j*k mod n) with W = exp(-2*pi*i/n); it is kept as the
\* coefficients of the powers W^0 .. W^(n-1), which are exact.
rfft(x) ==
    LET n == Len(x)
    IN  [k \in 1..(n \div 2 + 1) |->
            [e \in 1..n |->
                RSum([j \in 1..n |->
                        IF ((j - 1) * (k - 1)) % n = e - 1 THEN x[j] ELSE Float(0)])]]

\* np.abs(c) / n of one bin, symbolic in the powers of W
Magnitude(c, n) == [abs_of |-> c, over |-> n]

\* a slip: "and" for "or" in the guard on the sample counts
TooShortBoth(time, signal) == Len(time) < 4 /\ Len(signal) < 4

\* time.size < 4 or signal.size < 4
TooShort(time, signal) == Len(time) < 4 \/ Len(signal) < 4

Empty == <<>>

fft_magnitude(time, signal0) ==
    LET signal == AsFloatArray(signal0)
        dt == FiniteOnly(Diff(time))
    IN  IF TooShort(time, signal) THEN Ok(<<Empty, Empty>>)
        ELSE IF Len(dt) = 0 THEN Ok(<<Empty, Empty>>)
        ELSE LET dt_med == Median(dt)
             IN  IF RLeq(dt_med, Float(0)) THEN Ok(<<Empty, Empty>>)
                 ELSE LET mean == Mean(signal)
                          x == [i \in 1..Len(signal) |-> RSub(signal[i], mean)]
                          n == Len(x)
                          freq == rfftfreq(n, dt_med)
                          coef == rfft(x)
                          mag == [k \in 1..Len(coef) |-> Magnitude(coef[k], n)]
                      IN  Ok(<<freq, mag>>)

TimeValues == {Num(Float(0)), Num(Float(1)), NaN, Inf(1)}

FFTArgs == [time : SeqsUpTo(TimeValues, MaxSamples),
            signal : SeqsUpTo(0..1, MaxSamples)]

InitFFT == /\ pc = "call"
           /\ fn = "fft_magnitude"
           /\ args \in FFTArgs
           /\ ret = NoResult

CallFftMagnitude ==
    /\ pc = "call"
    /\ fn = "fft_magnitude"
    /\ ret' = fft_magnitude(args.time, args.signal)
    /\ pc' = "done"
    /\ UNCHANGED <<fn, args>>

NextFFT == CallFftMagnitude

SpecFFT == InitFFT /\ [][NextFFT]_vars


-----------------------------------------------------------------------------
(* plotting.make_plotly_3d_signals                                         *)

\* the 3D view needs at least this many aligned points
MIN_POINTS_3D == 5

\* models.SeriesData
SeriesData(name, t, y, y_ma) == [name |-> name, t |-> t, y |-> y, y_ma |-> y_ma]

\* min(...) of a non-empty set of integers
Min(S) == CHOOSE m \in S : \A k \in S : m <= k

\* a[:n] for 0 <= n
Truncate(a, n) == SubSeq(a, 1, Min({n, Len(a)}))

\* a slip: the position is rounded to the nearest index (np.rint: halves go
\* to the even neighbour)
RoundToInt(q) ==
    LET lo == q.num \div q.den
        twice == 2 * (q.num - lo * q.den)
    IN  IF twice < q.den THEN lo
        ELSE IF twice > q.den THEN lo + 1
        ELSE IF lo % 2 = 0 THEN lo ELSE lo + 1

\* float -> int of ndarray.astype(int): the fraction is cut off
TruncToInt(q) == IF q.num >= 0 THEN q.num \div q.den ELSE -((-q.num) \div q.den)

\* a slip: linspace(..., endpoint=False)
linspace_open(start, stop, num) ==
    [k \in 1..num |->
        RAdd(RMul(Float(k - 1), RDiv(Float(stop - start), Float(num))), Float(start))]

\* np.linspace(start, stop, num) for num >= 0: arange(num) * step + start
\* with step = (stop - start) / (num - 1), the last entry set to stop; for
\* num = 1 the only entry is start
linspace(start, stop, num) ==
    LET div == num - 1
        delta == stop - start
    IN  [k \in 1..num |->
            IF div > 0
            THEN IF k = num THEN Float(stop)
                 ELSE RAdd(RMul(Float(k - 1), RDiv(Float(delta), Float(div))), Float(start))
            ELSE RAdd(RMul(Float(k - 1), Float(delta)), Float(start))]

\* a[idx] with an integer index array (0-based entries)
Take(a, idx) == [k \in 1..Len(idx) |-> a[idx[k] + 1]]

\* np.arange(n)
Arange(n) == [k \in 1..n |-> k - 1]

\* the colour driver and the colour bar title
ColorDriver(color_by, x, y, z, t1, t2, t3, n) ==
    IF color_by = "Row 1 time" THEN <<t1, "Row 1 time">>
    ELSE IF color_by = "Row 2 time" THEN <<t2, "Row 2 time">>
    ELSE IF color_by = "Row 3 time" THEN <<t3, "Row 3 time">>
    ELSE IF color_by = "Row 1 value" THEN <<x, "Row 1 value">>
    ELSE IF color_by = "Row 2 value" THEN <<y, "Row 2 value">>
    ELSE IF color_by = "Row 3 value" THEN <<z, "Row 3 value">>
    ELSE <<Arange(n), "Sample index">>

\* go.Figure(...): the data the figure is built from
Figure(x, y, z, t1, t2, t3, n, color_by) ==
    LET cd == ColorDriver(color_by, x, y, z, t1, t2, t3, n)
    IN  [x |-> x, y |-> y, z |-> z, t1 |-> t1, t2 |-> t2, t3 |-> t3, n |-> n,
         color |-> cd[1], ctitle |-> cd[2]]

\* a slip: the time sequences are left out of the minimum
AlignedLengthValuesOnly(x, y, z, t1, t2, t3) == Min({Len(x), Len(y), Len(z)})

\* n = min(len(x), len(y), len(z), len(t1), len(t2), len(t3))
AlignedLength(x, y, z, t1, t2, t3) ==
    Min({Len(x), Len(y), Len(z), Len(t1), Len(t2), Len(t3)})

\* np.linspace(0, n - 1, int(max_points)).astype(int)
DownsampleIndex(n, max_points) ==
    LET pos == linspace(0, n - 1, max_points)
    IN  [k \in 1..Len(pos) |-> TruncToInt(pos[k])]

make_plotly_3d_signals(series, use_ma, max_points, color_by) ==
    IF Len(series) # 3 THEN Raise("ValueError", "Exactly 3 rows required")
    ELSE
    LET s1 == series[1]
        s2 == series[2]
        s3 == series[3]
        x0 == IF use_ma THEN s1.y_ma ELSE s1.y
        y0 == IF use_ma THEN s2.y_ma ELSE s2.y
        z0 == IF use_ma THEN s3.y_ma ELSE s3.y
        n0 == AlignedLength(x0, y0, z0, s1.t, s2.t, s3.t)
    IN  IF n0 < MIN_POINTS_3D THEN Raise("ValueError", "Not enough points for 3D plot")
        ELSE
        LET x == Truncate(x0, n0)
            y == Truncate(y0, n0)
            z == Truncate(z0, n0)
            t1 == Truncate(s1.t, n0)
            t2 == Truncate(s2.t, n0)
            t3 == Truncate(s3.t, n0)
        IN  IF max_points # 0 /\ n0 > max_points THEN
                IF max_points < 0
                THEN Raise("ValueError", "Number of samples must be non-negative")
                ELSE LET idx == DownsampleIndex(n0, max_points)
                     IN  Ok(Figure(Take(x, idx), Take(y, idx), Take(z, idx),
                                   Take(t1, idx), Take(t2, idx), Take(t3, idx),
                                   max_points, color_by))
            ELSE Ok(Figure(x, y, z, t1, t2, t3, n0, color_by))

\* the lengths the sequences of a series are drawn from
Lengths3D == {MIN_POINTS_3D - 1, MIN_POINTS_3D, MaxN3D}

\* series number k with lt time samples and ly value samples; every sample
\* is distinct, so a sample tells where it came from
MakeSeries(k, lt, ly) ==
    SeriesData(<<"S", k>>,
               [i \in 1..lt |-> 1000 * k + i - 1],
               [i \in 1..ly |-> 100 * k + i - 1],
               [i \in 1..ly |-> 100 * k + 50 + i - 1])

\* the same with a smoothed sequence of lm samples
MakeSeriesMA(k, lt, ly, lm) ==
    SeriesData(<<"S", k>>,
               [i \in 1..lt |-> 1000 * k + i - 1],
               [i \in 1..ly |-> 100 * k + i - 1],
               [i \in 1..lm |-> 100 * k + 50 + i - 1])

\* lists of two or three series; y_ma has the length of y, except that one
\* series of the list (number short, none for 0) may carry a y_ma that is
\* one sample shorter
SeriesLists ==
    UNION {{[k \in 1..c |->
                MakeSeriesMA(k, lt[k], ly[k], IF k = short THEN ly[k] - 1 ELSE ly[k])] :
               lt \in [1..c -> Lengths3D], ly \in [1..c -> Lengths3D], short \in 0..c} :
           c \in 2..3}

Plot3DArgs == [series : SeriesLists,
               use_ma : BOOLEAN,
               max_points : -1..(MaxN3D + 1),
               color_by : {"Sample index", "Row 1 time", "Row 3 value"}]

Init3D == /\ pc = "call"
          /\ fn = "make_plotly_3d_signals"
          /\ args \in Plot3DArgs
          /\ ret = NoResult

CallMakePlotly3dSignals ==
    /\ pc = "call"
    /\ fn = "make_plotly_3d_signals"
    /\ ret' = make_plotly_3d_signals(args.series, args.use_ma, args.max_points,
                                     args.color_by)
    /\ pc' = "done"
    /\ UNCHANGED <<fn, args>>

Next3D == CallMakePlotly3dSignals

Spec3D == Init3D /\ [][Next3D]_vars

-----------------------------------------------------------------------------
(* Any one call of the pipeline                                            *)

Init == InitMA \/ InitDiscover \/ InitExtract \/ InitFFT \/ Init3D

Next ==
    \/ CallMovingAverage
    \/ CallDiscoverSignals
    \/ CallExtractSignal
    \/ CallFftMagnitude
    \/ CallMakePlotly3dSignals

Spec == Init /\ [][Next]_vars


-----------------------------------------------------------------------------
(* Claims about moving_average (checked under SpecMA)                      *)

DoneMA == pc = "done" /\ fn = "moving_average"

Clamp(j, lo, hi) == IF j < lo THEN lo ELSE IF j > hi THEN hi ELSE j

\* x[clamp(lo)] + ... + x[clamp(hi)], positions clamped into 1..Len(x)
RECURSIVE ClampedSum(_, _, _)
ClampedSum(x, lo, hi) ==
    IF lo > hi THEN 0
    ELSE x[Clamp(lo, 1, Len(x))] + ClampedSum(x, lo + 1, hi)

\* k * q = s for an integer k, a rational q and an integer s
TimesEquals(k, q, s) == k * q.num = s * q.den

IsConstant(x) == \A i, j \in 1..Len(x) : x[i] = x[j]

\* C1: moving_average raises InvalidParameter (ValueError) for every
\* window < 1, whatever the input and the mode; it never returns a result.
C1_WindowBelowOneRaises ==
    (DoneMA /\ args.window < 1) => ret.kind = "raise"

\* C2: for every x, every window >= 1 and both modes the result has the
\* length of x, and for window = 1 it equals x element by element.
C2_LengthPreserved ==
    (DoneMA /\ args.window >= 1 /\ args.mode \in {"trailing", "centered"}) =>
        /\ ret.kind = "ok"
        /\ Len(ret.value) = Len(args.x)
        /\ args.window = 1 =>
              \A i \in 1..Len(args.x) : TimesEquals(1, ret.value[i], args.x[i])

C2_Witness ==
    /\ DoneMA /\ args.mode = "centered"
    /\ args.window = 2 /\ Len(args.x) = 3
    /\ ret.kind = "ok" /\ Len(ret.value) = 3

\* C3: trailing mode, 1 < window <= len(x): window * out[i] is the sum of
\* the window samples ending at i, positions before the start replaced by
\* the first sample; a constant sequence is returned unchanged.
C3_TrailingWindow ==
    (DoneMA /\ args.mode = "trailing"
            /\ 1 < args.window /\ args.window <= Len(args.x)) =>
        /\ ret.kind = "ok"
        /\ DOMAIN ret.value = 1..Len(args.x)
        /\ \A i \in 1..Len(args.x) :
              TimesEquals(args.window, ret.value[i],
                          ClampedSum(args.x, i - args.window + 1, i))
        /\ IsConstant(args.x) =>
              \A i \in 1..Len(args.x) : ret.value[i] = Float(args.x[i])

C3_Witness ==
    /\ DoneMA /\ args.mode = "trailing"
    /\ args.window = 3 /\ args.x = <<1, 0, -1, 1>>
    /\ ret = Ok(<<Rat(1, 1), Rat(2, 3), Rat(0, 1), Rat(0, 1)>>)

\* C4: centered mode, 1 < window <= len(x), left = (window-1) div 2 and
\* right = window - 1 - left: window * out[i] is the sum of the samples at
\* i-left .. i+right, positions clamped into the sequence.
C4_CenteredWindow ==
    (DoneMA /\ args.mode = "centered"
            /\ 1 < args.window /\ args.window <= Len(args.x)) =>
        LET left  == (args.window - 1) \div 2
            right == args.window - 1 - left
        IN  /\ ret.kind = "ok"
            /\ DOMAIN ret.value = 1..Len(args.x)
            /\ \A i \in 1..Len(args.x) :
                  TimesEquals(args.window, ret.value[i],
                              ClampedSum(args.x, i - left, i + right))

\* an even window reaches one sample further right than left
C4_Witness ==
    /\ DoneMA /\ args.mode = "centered"
    /\ args.window = 2 /\ args.x = <<1, 0, -1>>
    /\ ret = Ok(<<Rat(1, 2), Rat(-1, 2), Rat(-1, 1)>>)

\* C5: window > len(x), x non-empty: trailing gives the running mean
\* ((i+1) * out[i] = x[0] + ... + x[i]), centered gives the mean of the
\* whole sequence at every position.
C5_DegenerateWindow ==
    (DoneMA /\ args.window > Len(args.x) /\ Len(args.x) > 0) =>
        /\ args.mode = "trailing" =>
              /\ ret.kind = "ok"
              /\ DOMAIN ret.value = 1..Len(args.x)
              /\ \A i \in 1..Len(args.x) :
                    TimesEquals(i, ret.value[i], ClampedSum(args.x, 1, i))
        /\ args.mode = "centered" =>
              /\ ret.kind = "ok"
              /\ DOMAIN ret.value = 1..Len(args.x)
              /\ \A i \in 1..Len(args.x) :
                    TimesEquals(Len(args.x), ret.value[i],
                                ClampedSum(args.x, 1, Len(args.x)))

C5_Witness ==
    /\ DoneMA /\ args.mode = "trailing"
    /\ args.window = 3 /\ args.x = <<1, 0>>
    /\ ret = Ok(<<Rat(1, 1), Rat(1, 2)>>)

-----------------------------------------------------------------------------
(* Claims about discover_signals (checked under SpecDiscover)              *)

DoneDiscover == pc = "done" /\ fn = "discover_signals"

\* s without its leading and trailing whitespace
Trimmed(s) ==
    LET keep == {i \in 1..Len(s) : s[i] \notin Whitespace}
    IN  IF keep = {} THEN <<>>
        ELSE SubSeq(s, CHOOSE i \in keep : \A k \in keep : i <= k,
                       CHOOSE i \in keep : \A k \in keep : i >= k)

IsTimeCol(c) == c.type = "str" /\ StartsWith(c.text, TIME_PREFIX)

NameOf(c) == Trimmed(SubSeq(c.text, Len(TIME_PREFIX) + 1, Len(c.text)))

\* column q carries the values of time column p
IsValueFor(cols, p, q) ==
    /\ cols[q] # cols[p]
    /\ cols[q].type = "str"
    /\ EndsWith(cols[q].text, DASH \o NameOf(cols[p]))

\* the positions of the time columns that yield a Signal
Paired(cols) ==
    {p \in 1..Len(cols) :
        /\ IsTimeCol(cols[p])
        /\ NameOf(cols[p]) # <<>>
        /\ \E q \in 1..Len(cols) : IsValueFor(cols, p, q)}

\* C6: discover_signals returns exactly one Signal for each string column
\* that starts with "Time - ", has a non-empty trimmed name and has another
\* string column ending with " - <name>"; its value column is the first
\* such column in column order; time columns without a candidate are
\* skipped; the signals are in the order of their time columns.
C6_DiscoverPairsInOrder ==
    DoneDiscover =>
        LET cols == args.columns
            P == Paired(cols)
        IN  /\ ret.kind = "ok"
            /\ Len(ret.value) = Cardinality(P)
            /\ \A p \in P :
                  LET j == Cardinality({q \in P : q <= p})
                      v == CHOOSE q \in 1..Len(cols) :
                              /\ IsValueFor(cols, p, q)
                              /\ \A r \in 1..(q - 1) : ~IsValueFor(cols, p, r)
                  IN  ret.value[j] = Signal(NameOf(cols[p]), cols[p], cols[v])

\* an orphan time column first, then a signal with two candidates
C6_Witness ==
    /\ DoneDiscover
    /\ args.columns = << StrCol(TIME \o DASH \o <<"B">>),
                         StrCol(<<"Y">> \o DASH \o <<"A">>),
                         StrCol(TIME \o DASH \o <<"A">>),
                         StrCol(<<"X">> \o DASH \o <<"A">>) >>
    /\ ret = Ok(<< Signal(<<"A">>, StrCol(TIME \o DASH \o <<"A">>),
                                   StrCol(<<"Y">> \o DASH \o <<"A">>)) >>)

\* C7: in every catalog returned by one discover_signals call the signal
\* names are unique and each Signal's time column differs from its value
\* column, for every set of distinct column labels.
C7_NamesUniqueAndColumnsDiffer ==
    DoneDiscover =>
        /\ \A i, j \in 1..Len(ret.value) :
              i # j => ret.value[i].name # ret.value[j].name
        /\ \A i \in 1..Len(ret.value) :
              ret.value[i].time_col # ret.value[i].value_col

-----------------------------------------------------------------------------
(* Claims about extract_signal (checked under SpecExtract)                 *)

DoneExtract == pc = "done" /\ fn = "extract_signal"

\* the rows whose time cell and value cell are both numeric after coercion
ValidRows(df) ==
    {r \in 1..Len(df.time) : ~IsNaN(Coerce(df.time[r])) /\ ~IsNaN(Coerce(df.value[r]))}

\* C8: extract_signal returns two sequences of equal length, the number of
\* rows in which both cells are numeric; the kept samples are exactly those
\* rows in their original order, re-indexed densely from 0; a row with a
\* missing entry in either column is dropped from both and nothing raises.
C8_ExtractKeepsValidRows ==
    DoneExtract =>
        LET V == ValidRows(args.df)
        IN  /\ ret.kind = "ok"
            /\ Len(ret.value[1]) = Cardinality(V)
            /\ Len(ret.value[2]) = Cardinality(V)
            /\ \A r \in V :
                  LET j == Cardinality({q \in V : q <= r})
                  IN  /\ ret.value[1][j] = [index |-> j - 1, value |-> Coerce(args.df.time[r])]
                      /\ ret.value[2][j] = [index |-> j - 1, value |-> Coerce(args.df.value[r])]

\* the middle row misses its value, the last row holds text that parses
C8_Witness ==
    /\ DoneExtract
    /\ args.df = [time  |-> <<NumCell(1), NumCell(1), StrCell(<<"2", "0">>)>>,
                  value |-> <<StrCell(<<"2", "0">>), NoneCell, NumCell(1)>>]
    /\ ret = Ok(<< <<[index |-> 0, value |-> Num(Float(1))],
                     [index |-> 1, value |-> Num(Float(20))]>>,
                   <<[index |-> 0, value |-> Num(Float(20))],
                     [index |-> 1, value |-> Num(Float(1))]>> >>)

-----------------------------------------------------------------------------
(* Claims about fft_magnitude (checked under SpecFFT)                      *)

DoneFFT == pc = "done" /\ fn = "fft_magnitude"

\* the positions of time whose difference to the next sample is finite
FiniteSteps(time) ==
    {i \in 1..(Len(time) - 1) : IsFinite(FSub(time[i + 1], time[i]))}

Step(time, i) == FSub(time[i + 1], time[i]).q

\* the step at position i is a k-th smallest of the finite steps
IsKthSmallest(time, i, k) ==
    LET F == FiniteSteps(time)
    IN  /\ Cardinality({j \in F : RLess(Step(time, j), Step(time, i))}) < k
        /\ k <= Cardinality({j \in F : RLeq(Step(time, j), Step(time, i))})

\* the median of the finite steps is <= 0 (F is not empty)
MedianNotPositive(time) ==
    LET F == FiniteSteps(time)
        c == Cardinality(F)
    IN  IF c % 2 = 1
        THEN \E i \in F : /\ IsKthSmallest(time, i, (c + 1) \div 2)
                          /\ RLeq(Step(time, i), Float(0))
        ELSE \E i, j \in F : /\ IsKthSmallest(time, i, c \div 2)
                             /\ IsKthSmallest(time, j, c \div 2 + 1)
                             /\ RLeq(RAdd(Step(time, i), Step(time, j)), Float(0))

DegenerateInput(time, signal) ==
    \/ Len(time) < 4
    \/ Len(signal) < 4
    \/ FiniteSteps(time) = {}
    \/ MedianNotPositive(time)

\* C9: fft_magnitude never raises; it returns two empty sequences when an
\* input has fewer than 4 samples, or no consecutive time difference is
\* finite, or the median of the finite differences is <= 0; otherwise it
\* returns two sequences of length n div 2 + 1 (n value samples), the first
\* frequency being 0.
C9_FftShapeOrEmpty ==
    DoneFFT =>
        /\ ret.kind = "ok"
        /\ DegenerateInput(args.time, args.signal) =>
              ret.value = <<Empty, Empty>>
        /\ ~DegenerateInput(args.time, args.signal) =>
              /\ Len(ret.value[1]) = Len(args.signal) \div 2 + 1
              /\ Len(ret.value[2]) = Len(args.signal) \div 2 + 1
              /\ ret.value[1][1] = Float(0)

\* two steps are lost to a NaN sample; the finite step 1 gives dt = 1
C9_Witness ==
    /\ DoneFFT
    /\ args.time = <<Num(Float(0)), Num(Float(1)), NaN, Num(Float(1))>>
    /\ args.signal = <<0, 1, 0, 1>>
    /\ ret.kind = "ok"
    /\ ret.value[1] = <<Rat(0, 1), Rat(1, 4), Rat(1, 2)>>
    /\ Len(ret.value[2]) = 3

\* the median of the finite steps -1, 1, -1 is negative: empty spectrum
C9_WitnessEmpty ==
    /\ DoneFFT
    /\ args.time = <<Num(Float(1)), Num(Float(0)), Num(Float(1)), Num(Float(0))>>
    /\ args.signal = <<0, 1, 0, 1>>
    /\ ret = Ok(<<Empty, Empty>>)

-----------------------------------------------------------------------------
(* Claims about make_plotly_3d_signals (checked under Spec3D)              *)

Done3D == pc = "done" /\ fn = "make_plotly_3d_signals"

\* the six sequences the view aligns: three value sequences, three times
Inputs3D ==
    LET s == args.series
        Pick(d) == IF args.use_ma THEN d.y_ma ELSE d.y
    IN  <<Pick(s[1]), Pick(s[2]), Pick(s[3]), s[1].t, s[2].t, s[3].t>>

\* the same six sequences as the figure holds them
Outputs3D ==
    <<ret.value.x, ret.value.y, ret.value.z, ret.value.t1, ret.value.t2, ret.value.t3>>

\* the aligned length
N3D == Min({Len(Inputs3D[i]) : i \in 1..6})

\* the 0-based position of sample v among the first n entries of src
IndexIn(src, n, v) == (CHOOSE i \in 1..n : src[i] = v) - 1

\* out holds count samples of the first n entries of src, at non-decreasing
\* positions
TakenInOrder(out, src, n, count) ==
    /\ Len(out) = count
    /\ \A k \in 1..count : \E i \in 1..n : src[i] = out[k]
    /\ \A k \in 1..(count - 1) : IndexIn(src, n, out[k]) <= IndexIn(src, n, out[k + 1])

\* the call is one that C10 speaks about: three series, n >= 5
Aligned3D == Done3D /\ Len(args.series) = 3 /\ N3D >= MIN_POINTS_3D

\* C10 as stated: for every max_points with 1 <= max_points < n each of the
\* six downsampled sequences has exactly max_points entries, taken at
\* non-decreasing indices that start at 0 and end at n-1; for
\* n <= max_points the sequences keep their n entries.
C10_DownsampleBothEndpoints ==
    Aligned3D =>
        LET n == N3D
            mp == args.max_points
        IN  /\ (1 <= mp /\ mp < n) =>
                  /\ ret.kind = "ok"
                  /\ \A s \in 1..6 :
                        /\ TakenInOrder(Outputs3D[s], Inputs3D[s], n, mp)
                        /\ IndexIn(Inputs3D[s], n, Outputs3D[s][1]) = 0
                        /\ IndexIn(Inputs3D[s], n, Outputs3D[s][mp]) = n - 1
            /\ n <= mp =>
                  /\ ret.kind = "ok"
                  /\ \A s \in 1..6 : Outputs3D[s] = SubSeq(Inputs3D[s], 1, n)

\* C10 amended: as stated for 2 <= max_points < n; for max_points = 1 the
\* single entry is the one at index 0 (index n-1 is not included).
C10_DownsampleEndpointsFromTwo ==
    Aligned3D =>
        LET n == N3D
            mp == args.max_points
        IN  /\ (1 <= mp /\ mp < n) =>
                  /\ ret.kind = "ok"
                  /\ \A s \in 1..6 :
                        /\ TakenInOrder(Outputs3D[s], Inputs3D[s], n, mp)
                        /\ IndexIn(Inputs3D[s], n, Outputs3D[s][1]) = 0
                        /\ mp >= 2 =>
                              IndexIn(Inputs3D[s], n, Outputs3D[s][mp]) = n - 1
            /\ n <= mp =>
                  /\ ret.kind = "ok"
                  /\ \A s \in 1..6 : Outputs3D[s] = SubSeq(Inputs3D[s], 1, n)

\* series of 7, 5 and 7 samples align to n = 5; 3 of them are kept
C10_Witness ==
    /\ Done3D
    /\ args.series = <<MakeSeries(1, MaxN3D, MaxN3D),
                       MakeSeries(2, MIN_POINTS_3D, MIN_POINTS_3D),
                       MakeSeries(3, MaxN3D, MaxN3D)>>
    /\ ~args.use_ma
    /\ args.max_points = 3
    /\ ret.kind = "ok"
    /\ ret.value.x = <<100, 102, 104>>
    /\ ret.value.y = <<200, 202, 204>>
    /\ ret.value.t3 = <<3000, 3002, 3004>>
    /\ ret.value.n = 3

\* the error of the n < 5 guard
InsufficientData == Raise("ValueError", "Not enough points for 3D plot")

\* C11: n is the minimum length over the three selected value sequences
\* (raw or smoothed per use_ma) and the three time sequences; the call
\* fails with InsufficientData (ValueError) exactly when n < 5, and then no
\* figure is produced; when n >= 5 every sequence is truncated to its first
\* n entries by position.
C11_AlignToShortestOrFail ==
    (Done3D /\ Len(args.series) = 3) =>
        LET n == N3D
            mp == args.max_points
        IN  /\ ret = InsufficientData <=> n < MIN_POINTS_3D
            /\ n < MIN_POINTS_3D => ret.kind = "raise"
            /\ (n >= MIN_POINTS_3D /\ mp >= 0) =>
                  /\ ret.kind = "ok"
                  /\ \A s \in 1..6 :
                        \A k \in 1..Len(Outputs3D[s]) :
                            \E i \in 1..n : Inputs3D[s][i] = Outputs3D[s][k]
                  /\ (mp = 0 \/ mp >= n) =>
                        /\ ret.value.n = n
                        /\ \A s \in 1..6 : Outputs3D[s] = SubSeq(Inputs3D[s], 1, n)

\* smoothed values are selected; the third series has a y_ma of 6 samples
\* and a time sequence of 7, the others 7 and 7: n = 6
C11_Witness ==
    /\ Done3D
    /\ args.series = <<MakeSeries(1, MaxN3D, MaxN3D),
                       MakeSeries(2, MaxN3D, MaxN3D),
                       MakeSeriesMA(3, MaxN3D, MaxN3D, MaxN3D - 1)>>
    /\ args.use_ma
    /\ args.max_points = MaxN3D + 1
    /\ ret.kind = "ok"
    /\ ret.value.n = MaxN3D - 1
    /\ Len(ret.value.x) = MaxN3D - 1
    /\ ret.value.x[1] = 150
    /\ Len(ret.value.t3) = MaxN3D - 1
    /\ ret.value.t3[1] = 3000

\* the call downsamples and C12 speaks about it: n > max_points >= 2
Downsampled3D == Aligned3D /\ args.max_points >= 2 /\ N3D > args.max_points

\* the 0-based index at which entry k of downsampled sequence s was taken
SelectedIndex(s, k) == IndexIn(Inputs3D[s], N3D, Outputs3D[s][k])

\* i is an integer nearest to the position k * (n-1) / (mp-1)
IsNearest(i, k, n, mp) == 2 * Abs(i * (mp - 1) - k * (n - 1)) <= mp - 1

\* i is that position with its fraction cut off: the floor of a position
\* that is not whole; for a whole position p the float product k * step may
\* fall just short of p, so p and p - 1 are both allowed; the last position
\* is set to n - 1 itself
IsTruncated(i, k, n, mp) ==
    /\ i * (mp - 1) <= k * (n - 1)
    /\ k * (n - 1) <= (i + 1) * (mp - 1)
    /\ k = mp - 1 => i = n - 1

\* an index taken twice is the first or the last one
RepeatsOnlyAtBoundaries(s, n, mp) ==
    \A k, l \in 1..mp :
        (k # l /\ SelectedIndex(s, k) = SelectedIndex(s, l)) =>
            SelectedIndex(s, k) \in {0, n - 1}

\* C12 as stated: when the view downsamples (n > max_points >= 2) the k-th
\* selected index (k = 0..max_points-1) is the integer nearest to
\* k * (n-1) / (max_points-1), and an index repeats only at the boundaries.
C12_IndexRoundedToNearest ==
    Downsampled3D =>
        LET n == N3D
            mp == args.max_points
        IN  /\ ret.kind = "ok"
            /\ \A s \in 1..6 :
                  /\ Len(Outputs3D[s]) = mp
                  /\ \A k \in 0..(mp - 1) : IsNearest(SelectedIndex(s, k + 1), k, n, mp)
                  /\ RepeatsOnlyAtBoundaries(s, n, mp)

\* C12 amended: the k-th selected index is k * (n-1) / (max_points-1) with
\* its fraction cut off (truncated, not rounded to the nearest): never
\* above the position and less than one below it (exactly one below only
\* where a whole position is computed just short); the last index is n-1;
\* an index repeats only at the boundaries.
C12_IndexTruncated ==
    Downsampled3D =>
        LET n == N3D
            mp == args.max_points
        IN  /\ ret.kind = "ok"
            /\ \A s \in 1..6 :
                  /\ Len(Outputs3D[s]) = mp
                  /\ \A k \in 0..(mp - 1) : IsTruncated(SelectedIndex(s, k + 1), k, n, mp)
                  /\ RepeatsOnlyAtBoundaries(s, n, mp)

\* n = 5 and max_points = 4: the positions 0, 4/3, 8/3, 4 give the indices
\* 0, 1, 2, 4 (the nearest integers would be 0, 1, 3, 4)
C12_Witness ==
    /\ Done3D
    /\ args.series = <<MakeSeries(1, MIN_POINTS_3D, MIN_POINTS_3D),
                       MakeSeries(2, MIN_POINTS_3D, MIN_POINTS_3D),
                       MakeSeries(3, MIN_POINTS_3D, MIN_POINTS_3D)>>
    /\ ~args.use_ma
    /\ args.max_points = 4
    /\ ret.kind = "ok"
    /\ ret.value.x = <<100, 101, 102, 104>>
    /\ ret.value.t2 = <<2000, 2001, 2002, 2004>>

=============================================================================
